---- MODULE Spec2Model ----
(***************************************************************************)
(* Model of pixz's command-line entry point (src/src/pixz.c): option       *)
(* parsing, binding of the positional arguments, derivation of the output  *)
(* name from the input name's suffix, creation of the output file,         *)
(* dispatch to the compression / decompression / listing engine, and       *)
(* removal of the input.                                                   *)
(*                                                                         *)
(* Two specifications share the module.  Spec is one run of main().        *)
(* SpecDerive applies auto_output(), rule by rule, to a larger set of      *)
(* names, and derives back from the result (the round trip).               *)
(*                                                                         *)
(* C strings are TLA+ strings; the null pointer is the value NULL.         *)
(***************************************************************************)
EXTENDS Integers, Sequences, FiniteSets, TLC

\* ------------------------------------------------------------------ bounds
\* Most options one command line carries.
MaxFlags == 3
\* Most positional arguments one command line carries.
MaxArgs == 3
\* Longest stem put in front of a suffix fragment in SpecDerive's names.
MaxStem == 2

\* --------------------------------------------------------------- constants
LZMA_PRESET_DEFAULT == 6

\* pixz_op_t
OP_WRITE == "OP_WRITE"
OP_READ == "OP_READ"
OP_EXTRACT == "OP_EXTRACT"
OP_LIST == "OP_LIST"
Ops == {OP_WRITE, OP_READ, OP_EXTRACT, OP_LIST}

\* The null pointer; no name of the model equals it.
NULL == "(null)"
\* Abnormal termination inside a call (the process dies on a signal).
CRASH == "(crash)"
\* The standard streams, as values of gInFile and gOutFile.
STDIN == "(stdin)"
STDOUT == "(stdout)"

\* ------------------------------------------------- strsuf, subsuf, auto_output
\* strsuf computes big + bl - sl with size_t operands; this is that offset as
\* a signed number.  When it is negative the comparison starts before big.
strsufOffset(big, small) == Len(big) - Len(small)

\* What the bytes in front of big may hold when strsuf reads them (bl < sl):
\* the build does not fix them.  Two cases matter to strcmp: they equal the
\* head of small, or they do not ("?" is in no suffix of the table).
RECURSIVE Fill(_)
Fill(n) == IF n <= 0 THEN "" ELSE "?" \o Fill(n - 1)

MemBefore(big, small) ==
  LET n == Len(small) - Len(big) IN
  IF n <= 0 THEN {""} ELSE {SubSeq(small, 1, n), Fill(n)}

\* strsuf(big, small), given the bytes `pre` that precede big in memory.
strsuf(big, small, pre) ==
  LET bl == Len(big)
      sl == Len(small)
  IN  IF bl >= sl
        THEN SubSeq(big, bl - sl + 1, bl) = small
        ELSE pre \o big = small

\* subsuf with suf2 copied to the end of in (r + li) instead of r + li - l1.
subsufAppend(in, suf1, suf2, pre) ==
  IF ~strsuf(in, suf1, pre) THEN NULL
  ELSE IF Len(in) < Len(suf1) THEN CRASH
  ELSE in \o suf2

\* subsuf(in, suf1, suf2), given the bytes `pre` that precede in.  With
\* li < l1 (strsuf answered from the bytes in front of in) memcpy is asked
\* for (size_t)(li - l1) bytes and the process dies.
subsuf(in, suf1, suf2, pre) ==
  IF ~strsuf(in, suf1, pre) THEN NULL
  ELSE IF Len(in) < Len(suf1) THEN CRASH
  ELSE SubSeq(in, 1, Len(in) - Len(suf1)) \o suf2

\* Every result subsuf can give for these arguments.
subsufResults(in, suf1, suf2) ==
  { subsuf(in, suf1, suf2, pre) : pre \in MemBefore(in, suf1) }

\* The table with ".tpxz" stripped like ".xz" instead of replaced by ".tar".
SufTableTpxzStripped ==
  << [op |-> OP_READ,  s1 |-> ".tar.xz", s2 |-> ".tar"],
     [op |-> OP_READ,  s1 |-> ".tpxz",   s2 |-> ""],
     [op |-> OP_READ,  s1 |-> ".xz",     s2 |-> ""],
     [op |-> OP_WRITE, s1 |-> ".tar",    s2 |-> ".tpxz"],
     [op |-> OP_WRITE, s1 |-> "",        s2 |-> ".xz"] >>

\* The SUF(...) lines of auto_output, in order.
SufTable ==
  << [op |-> OP_READ,  s1 |-> ".tar.xz", s2 |-> ".tar"],
     [op |-> OP_READ,  s1 |-> ".tpxz",   s2 |-> ".tar"],
     [op |-> OP_READ,  s1 |-> ".xz",     s2 |-> ""],
     [op |-> OP_WRITE, s1 |-> ".tar",    s2 |-> ".tpxz"],
     [op |-> OP_WRITE, s1 |-> "",        s2 |-> ".xz"] >>

\* The macro SUF from line i of the table on: the results auto_output can
\* return (a name, NULL, or CRASH).
RECURSIVE SUF(_, _, _)
SUF(o, in, i) ==
  IF i > Len(SufTable) THEN {NULL}
  ELSE IF o # SufTable[i].op THEN SUF(o, in, i + 1)
  ELSE UNION { IF r # NULL THEN {r} ELSE SUF(o, in, i + 1) :
               r \in subsufResults(in, SufTable[i].s1, SufTable[i].s2) }

auto_output(o, in) == SUF(o, in, 1)

\* ------------------------------------------------------------------- state
VARIABLES
  \* one run of main()
  pc,             \* the step main() is at, or was at when the process ended
  run,            \* "running", "exited" or "crashed"
  status,         \* the exit status (meaningful once run = "exited")
  msg,            \* the message given to usage() or die()
  nflags,         \* options getopt_long has returned so far
  lastModeFlag,   \* the last of -z -d -x -l returned, "" when none
  onlyModeFlags,  \* no option other than -z -d -x -l was returned
  cGiven,         \* -c was returned
  oGiven,         \* the argument of -o when parsing ended, or NULL
  args,           \* argv after "argv += optind"
  op, ipath, opath, tar, keep_input, extreme, level,
  gBlockFraction, gPipelineProcessMax, gPipelineQSize,
  iremove, gInFile, gOutFile,
  derived,        \* what the call of auto_output returned, "" before it
  outOpened,      \* the path given to fopen(.., "w") or open(), or NULL
  umask,          \* the process's file mode creation mask
  fs,             \* the files the run has looked at: path -> [exists, mode]
  trace,          \* the calls that touch paths or engines, in order
  calls,          \* the engine calls with their arguments
  \* SpecDerive
  dPhase,         \* 0: not used, 1: deriving, 2: deriving back
  dOp, dIn,       \* the arguments of auto_output
  dRule,          \* the line of SufTable tried next
  dRet,           \* the returned value, RUNNING until auto_output returns
  dOff,           \* bl - sl of the latest strsuf call
  dOrig           \* the name the round trip started from

mainVars == << pc, run, status, msg, nflags, lastModeFlag, onlyModeFlags,
               cGiven, oGiven, args, op, ipath, opath, tar, keep_input,
               extreme, level, gBlockFraction, gPipelineProcessMax,
               gPipelineQSize, iremove, gInFile, gOutFile, derived,
               outOpened, umask, fs, trace, calls >>
deriveVars == << dPhase, dOp, dIn, dRule, dRet, dOff, dOrig >>
vars == << mainVars, deriveVars >>

\* ------------------------------------------------------------ environment
\* Bitwise AND of two non-negative numbers.
RECURSIVE BitAnd(_, _)
BitAnd(a, b) ==
  IF a = 0 \/ b = 0 THEN 0
  ELSE (a % 2) * (b % 2) + 2 * BitAnd(a \div 2, b \div 2)

\* st_mode of the regular files of the model: 0100640 and 0100666.
FileModes == {33184, 33206}
\* The umasks of the model: 000, 022 and 077.
Umasks == {0, 18, 63}
\* What a path the run has not looked at yet may hold.
FsEntries ==
  {[exists |-> FALSE, mode |-> 0]} \cup
  {[exists |-> TRUE, mode |-> m] : m \in FileModes}
Lookup(p) == IF p \in DOMAIN fs THEN {fs[p]} ELSE FsEntries
Put(p, e) == [q \in DOMAIN fs \cup {p} |-> IF q = p THEN e ELSE fs[q]]
\* The permission bits of an st_mode (mode & 07777).
Perm(m) == m % 4096
\* st_mode of a file that open(.., O_CREAT, req) or fopen(.., "w") creates:
\* a regular file with the bits req & 07777 & ~umask.
CreatedMode(req) == 32768 + BitAnd(Perm(req), 4095 - umask)

\* The names given as positional arguments and as arguments of -i and -o.
ArgPaths == {"f.tar", "f.xz", "xz"}
OptPaths == {"f.tar", "out"}
RECURSIVE SeqsUpTo(_, _)
SeqsUpTo(S, n) ==
  IF n = 0 THEN {<< >>}
  ELSE LET T == SeqsUpTo(S, n - 1) IN
       T \cup {Append(t, x) : t \in {u \in T : Len(u) = n - 1}, x \in S}
Positionals == SeqsUpTo(ArgPaths, MaxArgs)
\* Arguments of the numeric options: the number strtol / strtod returns and
\* the text left at *optend.
NumArgs == { [val |-> -1, rest |-> ""], [val |-> 0, rest |-> ""],
             [val |-> 1, rest |-> ""], [val |-> 1, rest |-> "x"] }
\* -0 .. -9, two of them, and ch - '0'.
Digits == {"0", "9"}
DigitValue(ch) == CHOOSE n \in 0..9 : ToString(n) = ch
ModeFlags == {"z", "d", "x", "l"}

\* ------------------------------------------------------------ termination
\* usage(msg): prints and calls exit(2).
usage(m) == run' = "exited" /\ status' = 2 /\ msg' = m
\* die(fmt, ...): reports and terminates the process with status 1.
die(m) == run' = "exited" /\ status' = 1 /\ msg' = m
\* How an engine call (pixz_write, pixz_read, pixz_list) can end.
EngineOutcomes == {"success", "fatal"}

exitVars == << run, status, msg >>
cfgVars == << op, ipath, opath, tar, keep_input, extreme, level,
              gBlockFraction, gPipelineProcessMax, gPipelineQSize >>
histVars == << nflags, lastModeFlag, onlyModeFlags, cGiven >>
ioVars == << gInFile, gOutFile, outOpened, fs, trace, calls >>

\* -------------------------------------------------------------------- Init
\* The state when main() enters the option loop.  The three pipeline globals
\* are defined by the engine; 0 stands for the value it gives them.
Init ==
  /\ pc = "getopt" /\ run = "running" /\ status = 0 /\ msg = ""
  /\ nflags = 0 /\ lastModeFlag = "" /\ onlyModeFlags = TRUE
  /\ cGiven = FALSE /\ oGiven = NULL /\ args = << >>
  /\ op = OP_WRITE /\ ipath = NULL /\ opath = NULL
  /\ tar = TRUE /\ keep_input = FALSE /\ extreme = FALSE
  /\ level = LZMA_PRESET_DEFAULT
  /\ gBlockFraction = 0 /\ gPipelineProcessMax = 0 /\ gPipelineQSize = 0
  /\ iremove = FALSE /\ gInFile = NULL /\ gOutFile = NULL
  /\ derived = "" /\ outOpened = NULL
  /\ umask \in Umasks
  /\ fs = [p \in {} |-> [exists |-> FALSE, mode |-> 0]]
  /\ trace = << >> /\ calls = << >>
  /\ dPhase = 0 /\ dOp = OP_WRITE /\ dIn = "" /\ dRule = 1
  /\ dRet = "" /\ dOff = 0 /\ dOrig = ""

\* ------------------------------------------------- the getopt_long loop
\* getopt_long returned the option character ch.
Returned(ch) ==
  /\ pc = "getopt" /\ run = "running" /\ nflags < MaxFlags
  /\ nflags' = nflags + 1
  /\ lastModeFlag' = IF ch \in ModeFlags THEN ch ELSE lastModeFlag
  /\ onlyModeFlags' = (onlyModeFlags /\ ch \in ModeFlags)
  /\ cGiven' = (cGiven \/ ch = "c")
  /\ UNCHANGED << pc, oGiven, args, iremove, derived, umask, ioVars,
                  deriveVars >>

OptC ==
  /\ Returned("c")
  /\ UNCHANGED << cfgVars, exitVars >>

OptD ==
  /\ Returned("d")
  /\ op' = OP_READ
  /\ UNCHANGED << ipath, opath, tar, keep_input, extreme, level,
                  gBlockFraction, gPipelineProcessMax, gPipelineQSize,
                  exitVars >>

OptX ==
  /\ Returned("x")
  /\ op' = OP_EXTRACT
  /\ UNCHANGED << ipath, opath, tar, keep_input, extreme, level,
                  gBlockFraction, gPipelineProcessMax, gPipelineQSize,
                  exitVars >>

OptL ==
  /\ Returned("l")
  /\ op' = OP_LIST
  /\ UNCHANGED << ipath, opath, tar, keep_input, extreme, level,
                  gBlockFraction, gPipelineProcessMax, gPipelineQSize,
                  exitVars >>

OptI ==
  /\ Returned("i")
  /\ \E optarg \in OptPaths : ipath' = optarg
  /\ UNCHANGED << op, opath, tar, keep_input, extreme, level,
                  gBlockFraction, gPipelineProcessMax, gPipelineQSize,
                  exitVars >>

OptO ==
  /\ Returned("o")
  /\ \E optarg \in OptPaths : opath' = optarg
  /\ UNCHANGED << op, ipath, tar, keep_input, extreme, level,
                  gBlockFraction, gPipelineProcessMax, gPipelineQSize,
                  exitVars >>

OptT ==
  /\ Returned("t")
  /\ tar' = FALSE
  /\ UNCHANGED << op, ipath, opath, keep_input, extreme, level,
                  gBlockFraction, gPipelineProcessMax, gPipelineQSize,
                  exitVars >>

OptK ==
  /\ Returned("k")
  /\ keep_input' = TRUE
  /\ UNCHANGED << op, ipath, opath, tar, extreme, level,
                  gBlockFraction, gPipelineProcessMax, gPipelineQSize,
                  exitVars >>

OptH ==
  /\ Returned("h")
  /\ usage(NULL)
  /\ UNCHANGED cfgVars

OptE ==
  /\ Returned("e")
  /\ extreme' = TRUE
  /\ UNCHANGED << op, ipath, opath, tar, keep_input, level,
                  gBlockFraction, gPipelineProcessMax, gPipelineQSize,
                  exitVars >>

OptF ==
  /\ Returned("f")
  /\ \E optarg \in NumArgs :
       IF optarg.rest # "" \/ optarg.val <= 0
         THEN /\ usage("Need a positive floating-point argument to -f")
              /\ UNCHANGED cfgVars
         ELSE /\ gBlockFraction' = optarg.val
              /\ UNCHANGED << op, ipath, opath, tar, keep_input, extreme,
                              level, gPipelineProcessMax, gPipelineQSize,
                              exitVars >>

\* case 'p': case 'T':
OptP ==
  /\ \E ch \in {"p", "T"} : Returned(ch)
  /\ \E optarg \in NumArgs :
       IF optarg.val < 0 \/ optarg.rest # ""
         THEN /\ usage("Need a non-negative integer argument to -p")
              /\ UNCHANGED cfgVars
         ELSE /\ gPipelineProcessMax' = optarg.val
              /\ UNCHANGED << op, ipath, opath, tar, keep_input, extreme,
                              level, gBlockFraction, gPipelineQSize,
                              exitVars >>

OptQ ==
  /\ Returned("q")
  /\ \E optarg \in NumArgs :
       IF optarg.val <= 0 \/ optarg.rest # ""
         THEN /\ usage("Need a positive integer argument to -q")
              /\ UNCHANGED cfgVars
         ELSE /\ gPipelineQSize' = optarg.val
              /\ UNCHANGED << op, ipath, opath, tar, keep_input, extreme,
                              level, gBlockFraction, gPipelineProcessMax,
                              exitVars >>

\* default: a digit sets the level; every other character getopt_long can
\* return ('z', which the option string accepts and no case handles, and
\* '?' for an option it does not know) ends in usage("").
OptDigit ==
  /\ \E ch \in Digits :
       /\ Returned(ch)
       /\ level' = DigitValue(ch)
  /\ UNCHANGED << op, ipath, opath, tar, keep_input, extreme,
                  gBlockFraction, gPipelineProcessMax, gPipelineQSize,
                  exitVars >>

OptDefault ==
  /\ \E ch \in {"z", "?"} : Returned(ch)
  /\ usage("")
  /\ UNCHANGED cfgVars

\* getopt_long returned -1: argc -= optind; argv += optind; and the
\* assignments that follow.
GetoptEnd ==
  /\ pc = "getopt" /\ run = "running"
  /\ \E a \in Positionals : args' = a
  /\ gInFile' = STDIN /\ gOutFile' = STDOUT /\ iremove' = FALSE
  /\ oGiven' = opath
  /\ pc' = "bind"
  /\ UNCHANGED << exitVars, histVars, cfgVars, derived, outOpened, umask,
                  fs, trace, calls, deriveVars >>

\* ------------------------------------------------ the positional arguments
\* if (op != OP_EXTRACT && argc >= 1) { ... }, with the input opened before
\* the output name is derived.
BindAfterOpen ==
  /\ pc = "bind" /\ run = "running"
  /\ UNCHANGED << histVars, oGiven, args, op, tar, keep_input, extreme, level,
                  gBlockFraction, gPipelineProcessMax, gPipelineQSize,
                  gOutFile, outOpened, umask, calls, deriveVars >>
  /\ IF op # OP_EXTRACT /\ Len(args) >= 1
       THEN \E e \in Lookup(args[1]) :
            /\ fs' = Put(args[1], e)
            /\ gInFile' = IF e.exists THEN args[1] ELSE NULL
            /\ IF Len(args) > 2 \/ (op = OP_LIST /\ Len(args) = 2)
                 THEN /\ usage("Too many arguments")
                      /\ trace' = Append(trace, "open_in")
                      /\ UNCHANGED << pc, ipath, opath, iremove, derived >>
                 ELSE IF ipath # NULL
                 THEN /\ usage("Multiple input files specified")
                      /\ trace' = Append(trace, "open_in")
                      /\ UNCHANGED << pc, ipath, opath, iremove, derived >>
                 ELSE IF Len(args) = 2
                 THEN /\ ipath' = args[1]
                      /\ trace' = Append(trace, "open_in")
                      /\ UNCHANGED << iremove, derived >>
                      /\ IF opath # NULL
                           THEN /\ usage("Multiple output files specified")
                                /\ UNCHANGED << pc, opath >>
                           ELSE /\ opath' = args[2]
                                /\ pc' = "open_out"
                                /\ UNCHANGED exitVars
                 ELSE IF op # OP_LIST
                 THEN /\ ipath' = args[1]
                      /\ iremove' = TRUE
                      /\ trace' = trace \o << "open_in", "derive" >>
                      /\ \E r \in auto_output(op, args[1]) :
                           /\ derived' = r
                           /\ IF r = CRASH
                                THEN /\ run' = "crashed"
                                     /\ UNCHANGED << pc, status, msg, opath >>
                                ELSE IF r = NULL
                                THEN /\ opath' = NULL
                                     /\ usage("Unknown suffix")
                                     /\ UNCHANGED pc
                                ELSE /\ opath' = r
                                     /\ pc' = "open_out"
                                     /\ UNCHANGED exitVars
                 ELSE /\ ipath' = args[1]
                      /\ trace' = Append(trace, "open_in")
                      /\ pc' = "open_out"
                      /\ UNCHANGED << exitVars, opath, iremove, derived >>
       ELSE /\ pc' = "open_in"
            /\ UNCHANGED << exitVars, ipath, opath, iremove, derived,
                            gInFile, fs, trace >>

\* if (op != OP_EXTRACT && argc >= 1) { ... }
Bind ==
  /\ pc = "bind" /\ run = "running"
  /\ UNCHANGED << histVars, oGiven, args, op, tar, keep_input, extreme, level,
                  gBlockFraction, gPipelineProcessMax, gPipelineQSize,
                  gInFile, gOutFile, outOpened, umask, fs, calls,
                  deriveVars >>
  /\ IF op # OP_EXTRACT /\ Len(args) >= 1
       THEN IF Len(args) > 2 \/ (op = OP_LIST /\ Len(args) = 2)
              THEN /\ usage("Too many arguments")
                   /\ UNCHANGED << pc, ipath, opath, iremove, derived, trace >>
            ELSE IF ipath # NULL
              THEN /\ usage("Multiple input files specified")
                   /\ UNCHANGED << pc, ipath, opath, iremove, derived, trace >>
            ELSE IF Len(args) = 2
              THEN /\ ipath' = args[1]
                   /\ UNCHANGED << iremove, derived, trace >>
                   /\ IF opath # NULL
                        THEN /\ usage("Multiple output files specified")
                             /\ UNCHANGED << pc, opath >>
                        ELSE /\ opath' = args[2]
                             /\ pc' = "open_in"
                             /\ UNCHANGED exitVars
            ELSE IF op # OP_LIST
              THEN /\ ipath' = args[1]
                   /\ iremove' = TRUE
                   /\ trace' = Append(trace, "derive")
                   /\ \E r \in auto_output(op, args[1]) :
                        /\ derived' = r
                        /\ IF r = CRASH
                             THEN /\ run' = "crashed"
                                  /\ UNCHANGED << pc, status, msg, opath >>
                             ELSE IF r = NULL
                             THEN /\ opath' = NULL
                                  /\ usage("Unknown suffix")
                                  /\ UNCHANGED pc
                             ELSE /\ opath' = r
                                  /\ pc' = "open_in"
                                  /\ UNCHANGED exitVars
            ELSE /\ ipath' = args[1]
                 /\ pc' = "open_in"
                 /\ UNCHANGED << exitVars, opath, iremove, derived, trace >>
       ELSE /\ pc' = "open_in"
            /\ UNCHANGED << exitVars, ipath, opath, iremove, derived, trace >>

\* ------------------------------------------------------------- the streams
\* if (ipath && !(gInFile = fopen(ipath, "r"))) die(...);
OpenInput ==
  /\ pc = "open_in" /\ run = "running"
  /\ UNCHANGED << histVars, cfgVars, oGiven, args, iremove, derived,
                  gOutFile, outOpened, umask, calls, deriveVars >>
  /\ IF ipath = NULL
       THEN /\ pc' = "open_out"
            /\ UNCHANGED << exitVars, gInFile, fs, trace >>
       ELSE \E e \in Lookup(ipath), ok \in BOOLEAN :
            /\ trace' = Append(trace, "open_in")
            /\ fs' = Put(ipath, e)
            /\ IF e.exists /\ ok
                 THEN /\ gInFile' = ipath
                      /\ pc' = "open_out"
                      /\ UNCHANGED exitVars
                 ELSE /\ gInFile' = NULL
                      /\ die("can not open input file")
                      /\ UNCHANGED pc

\* if (opath) { if (gInFile == stdin) fopen(opath, "w")
\*              else { stat(ipath); open(opath, O_CREAT | O_WRONLY, st_mode);
\*                     fdopen() } }
OpenOutput ==
  /\ pc = "open_out" /\ run = "running"
  /\ UNCHANGED << histVars, cfgVars, oGiven, args, iremove, derived,
                  gInFile, umask, calls, deriveVars >>
  /\ IF opath = NULL
       THEN /\ pc' = "dispatch"
            /\ UNCHANGED << exitVars, gOutFile, outOpened, fs, trace >>
       ELSE
         /\ trace' = Append(trace, "open_out")
         /\ outOpened' = opath
         /\ IF gInFile = STDIN
              THEN \E e \in Lookup(opath), ok \in BOOLEAN :
                   IF ok
                     THEN /\ fs' = Put(opath,
                                [exists |-> TRUE,
                                 mode |-> IF e.exists THEN e.mode
                                          ELSE CreatedMode(438)])
                          /\ gOutFile' = opath
                          /\ pc' = "dispatch"
                          /\ UNCHANGED exitVars
                     ELSE /\ fs' = Put(opath, e)
                          /\ gOutFile' = NULL
                          /\ die("can not open output file")
                          /\ UNCHANGED pc
              ELSE LET st_mode == fs[ipath].mode IN
                   \E e \in Lookup(opath), ok \in BOOLEAN, fdok \in BOOLEAN :
                   IF ~ok
                     THEN /\ fs' = Put(opath, e)
                          /\ die("can not open output file")
                          /\ UNCHANGED << pc, gOutFile >>
                     ELSE /\ fs' = Put(opath,
                                [exists |-> TRUE,
                                 mode |-> IF e.exists THEN e.mode
                                          ELSE CreatedMode(st_mode)])
                          /\ IF fdok
                               THEN /\ gOutFile' = opath
                                    /\ pc' = "dispatch"
                                    /\ UNCHANGED exitVars
                               ELSE /\ gOutFile' = NULL
                                    /\ die("can not open output file")
                                    /\ UNCHANGED pc

\* ---------------------------------------------------------------- dispatch
\* The engine call of switch (op), with the arguments main() passes.  The
\* level argument of pixz_write is a uint32_t: `level` is its low bits and
\* `extreme` its bit 31, which level |= LZMA_PRESET_EXTREME sets.
EngineCall ==
  CASE op = OP_WRITE ->
         [fn |-> "pixz_write", tar |-> tar, level |-> level,
          extreme |-> extreme, argv |-> << >>]
    [] op = OP_READ ->
         [fn |-> "pixz_read", tar |-> tar, level |-> 0,
          extreme |-> FALSE, argv |-> << >>]
    [] op = OP_EXTRACT ->
         [fn |-> "pixz_read", tar |-> tar, level |-> 0,
          extreme |-> FALSE, argv |-> args]
    [] op = OP_LIST ->
         [fn |-> "pixz_list", tar |-> tar, level |-> 0,
          extreme |-> FALSE, argv |-> << >>]

\* switch (op) { ... }
Dispatch ==
  /\ pc = "dispatch" /\ run = "running"
  /\ UNCHANGED << histVars, cfgVars, oGiven, args, iremove, derived,
                  gInFile, gOutFile, outOpened, umask, fs, deriveVars >>
  /\ \E tty \in (IF gOutFile = STDOUT THEN BOOLEAN ELSE {FALSE}) :
       IF op = OP_WRITE /\ tty
         THEN /\ usage("Refusing to output to a TTY")
              /\ UNCHANGED << pc, trace, calls >>
         ELSE /\ trace' = Append(trace, "engine")
              /\ calls' = Append(calls, EngineCall)
              /\ \E out \in EngineOutcomes :
                   IF out = "success"
                     THEN /\ pc' = "cleanup"
                          /\ UNCHANGED exitVars
                     ELSE /\ die("engine")
                          /\ UNCHANGED pc

\* if (iremove && !keep_input) unlink(ipath); return 0;
Cleanup ==
  /\ pc = "cleanup" /\ run = "running"
  /\ UNCHANGED << pc, histVars, cfgVars, oGiven, args, iremove, derived,
                  gInFile, gOutFile, outOpened, umask, calls, deriveVars >>
  /\ run' = "exited" /\ status' = 0 /\ UNCHANGED msg
  /\ IF iremove /\ ~keep_input
       THEN /\ trace' = Append(trace, "unlink")
            /\ \E ok \in BOOLEAN :
                 fs' = IF ok /\ ipath \in DOMAIN fs /\ fs[ipath].exists
                         THEN Put(ipath, [exists |-> FALSE, mode |-> 0])
                         ELSE fs
       ELSE UNCHANGED << fs, trace >>

Next ==
  \/ OptC \/ OptD \/ OptX \/ OptL \/ OptI \/ OptO \/ OptT \/ OptK \/ OptH
  \/ OptE \/ OptF \/ OptP \/ OptQ \/ OptDigit \/ OptDefault \/ GetoptEnd
  \/ Bind \/ OpenInput \/ OpenOutput \/ Dispatch \/ Cleanup

Spec == Init /\ [][Next]_vars

\* ------------------------------------------- SpecDerive: auto_output alone
\* The names auto_output is applied to: a stem of 0..MaxStem characters in
\* front of every fragment (suffix) of every suffix the table matches, so
\* that names shorter than, equal to and longer than each suffix occur.
RECURSIVE Stem(_)
Stem(n) == IF n <= 0 THEN "" ELSE "f" \o Stem(n - 1)
Fragments(s) == { SubSeq(s, i, Len(s)) : i \in 1..(Len(s) + 1) }
DeriveNames ==
  { Stem(n) \o t : n \in 0..MaxStem,
                   t \in UNION { Fragments(SufTable[i].s1) :
                                 i \in 1..Len(SufTable) } }
\* dRet while auto_output has not returned.
RUNNING == "(running)"

DeriveInit ==
  /\ pc = "getopt" /\ run = "running" /\ status = 0 /\ msg = ""
  /\ nflags = 0 /\ lastModeFlag = "" /\ onlyModeFlags = TRUE
  /\ cGiven = FALSE /\ oGiven = NULL /\ args = << >>
  /\ op = OP_WRITE /\ ipath = NULL /\ opath = NULL
  /\ tar = TRUE /\ keep_input = FALSE /\ extreme = FALSE
  /\ level = LZMA_PRESET_DEFAULT
  /\ gBlockFraction = 0 /\ gPipelineProcessMax = 0 /\ gPipelineQSize = 0
  /\ iremove = FALSE /\ gInFile = NULL /\ gOutFile = NULL
  /\ derived = "" /\ outOpened = NULL
  /\ umask = 0
  /\ fs = [p \in {} |-> [exists |-> FALSE, mode |-> 0]]
  /\ trace = << >> /\ calls = << >>
  /\ dPhase = 1 /\ dOp \in Ops /\ dIn \in DeriveNames /\ dRule = 1
  /\ dRet = RUNNING /\ dOff = 0 /\ dOrig = dIn

\* SUF(_op, ..) with op != OP_##_op: the line does nothing.
SufSkip ==
  /\ dPhase \in {1, 2} /\ dRet = RUNNING /\ dRule <= Len(SufTable)
  /\ SufTable[dRule].op # dOp
  /\ dRule' = dRule + 1
  /\ UNCHANGED << mainVars, dPhase, dOp, dIn, dRet, dOff, dOrig >>

\* SUF(_op, _s1, _s2) with op == OP_##_op: subsuf is called, and its result
\* returned when it is not NULL.
SufTry ==
  /\ dPhase \in {1, 2} /\ dRet = RUNNING /\ dRule <= Len(SufTable)
  /\ SufTable[dRule].op = dOp
  /\ dOff' = strsufOffset(dIn, SufTable[dRule].s1)
  /\ \E pre \in MemBefore(dIn, SufTable[dRule].s1) :
       LET r == subsuf(dIn, SufTable[dRule].s1, SufTable[dRule].s2, pre) IN
       IF r # NULL
         THEN dRet' = r /\ UNCHANGED dRule
         ELSE dRule' = dRule + 1 /\ UNCHANGED dRet
  /\ UNCHANGED << mainVars, dPhase, dOp, dIn, dOrig >>

\* return NULL;
SufNone ==
  /\ dPhase \in {1, 2} /\ dRet = RUNNING /\ dRule > Len(SufTable)
  /\ dRet' = NULL
  /\ UNCHANGED << mainVars, dPhase, dOp, dIn, dRule, dOff, dOrig >>

\* The name derived for OP_WRITE is given to auto_output for OP_READ.
DeriveBack ==
  /\ dPhase = 1 /\ dOp = OP_WRITE /\ dRet \notin {RUNNING, NULL, CRASH}
  /\ dPhase' = 2 /\ dOp' = OP_READ /\ dIn' = dRet
  /\ dRule' = 1 /\ dRet' = RUNNING
  /\ UNCHANGED << mainVars, dOff, dOrig >>

DeriveNext == SufSkip \/ SufTry \/ SufNone \/ DeriveBack

SpecDerive == DeriveInit /\ [][DeriveNext]_vars

\* The rule-by-rule steps return what the operator auto_output lists.
DeriveAgrees ==
  (dPhase \in {1, 2} /\ dRet # RUNNING) => dRet \in auto_output(dOp, dIn)

\* ================================================================== claims
InTrace(e) == \E i \in 1..Len(trace) : trace[i] = e
\* s is a suffix of name.
IsSuffix(s, name) ==
  /\ Len(name) >= Len(s)
  /\ SubSeq(name, Len(name) - Len(s) + 1, Len(name)) = s
\* The binder has run to its end without a usage error.
Bound == pc \notin {"getopt", "bind"}
\* main() returned 0.
Returned0 == run = "exited" /\ pc = "cleanup" /\ status = 0

\* The mode each mode flag stands for (Compress when none was given).
ModeOf(f) ==
  CASE f = "d" -> OP_READ
    [] f = "x" -> OP_EXTRACT
    [] f = "l" -> OP_LIST
    [] OTHER -> OP_WRITE

\* C1: for every flag sequence made of -z, -d, -x, -l only, parsing raises
\* no usage error and the mode is the one of the last mode flag given
\* (Compress when none is given or when -z is last).
C1_LastModeFlagWins ==
  onlyModeFlags =>
    /\ ~(run = "exited" /\ pc = "getopt")
    /\ op = ModeOf(lastModeFlag)

\* C2: with -c, in Compress or Decompress mode with one positional argument,
\* no output file is opened from a derived path, the engine is given
\* standard output, and the input file still exists after the run.
C2_StdoutKeepsInput ==
  (cGiven /\ Bound /\ op \in {OP_WRITE, OP_READ} /\ Len(args) = 1) =>
    /\ outOpened = NULL
    /\ (calls # << >> => gOutFile = STDOUT)
    /\ (Returned0 => (ipath \in DOMAIN fs /\ fs[ipath].exists))

\* C3: when an output path was given with -o, no path is derived and the
\* path the output stream is opened from is the one given with -o.
C3_ExplicitOutputUsed ==
  (oGiven # NULL /\ pc # "getopt") =>
    /\ ~InTrace("derive")
    /\ (outOpened # NULL => outOpened = oGiven)

\* The rule table as the claim C4 words it.
ClaimRules ==
  << << OP_READ, ".tar.xz", ".tar" >>, << OP_READ, ".tpxz", ".tar" >>,
     << OP_READ, ".xz", "" >>, << OP_WRITE, ".tar", ".tpxz" >>,
     << OP_WRITE, "", ".xz" >> >>
Matching(o, name) ==
  { i \in 1..Len(ClaimRules) :
      ClaimRules[i][1] = o /\ IsSuffix(ClaimRules[i][2], name) }
FirstMatch(o, name) ==
  IF Matching(o, name) = {} THEN NULL
  ELSE LET i == CHOOSE k \in Matching(o, name) :
                  \A m \in Matching(o, name) : k <= m
       IN  SubSeq(name, 1, Len(name) - Len(ClaimRules[i][2]))
             \o ClaimRules[i][3]

\* C4: auto_output returns the substitution of the first rule of the current
\* mode whose match-suffix is a suffix of the name, and none (NULL) when no
\* rule of that mode matches.
C4_FirstMatchingRule ==
  (dPhase \in {1, 2} /\ dRet # RUNNING) => dRet = FirstMatch(dOp, dIn)

\* C5: for every name ending in ".tar", deriving the output name under
\* Compress and then deriving from that result under Decompress yields the
\* original name.
C5_RoundTrip ==
  /\ (dPhase = 1 /\ dOp = OP_WRITE /\ dRet # RUNNING /\ IsSuffix(".tar", dIn))
       => dRet \notin {NULL, CRASH}
  /\ (dPhase = 2 /\ dRet # RUNNING /\ IsSuffix(".tar", dOrig))
       => dRet = dOrig
C5_Witness ==
  dPhase = 2 /\ dOrig = "f.tar" /\ dIn = "f.tpxz" /\ dRet = "f.tar"

\* Removal of the input happens at the end of a run that returns, and only
\* there, if and only if the keep flag is not set.
RemovalIffNotKept ==
  /\ InTrace("unlink") => Returned0
  /\ Returned0 => (InTrace("unlink") <=> ~keep_input)
\* The case of C6: Compress, one positional argument ending in ".tar", the
\* binder done.
C6_Case ==
  Bound /\ op = OP_WRITE /\ Len(args) = 1 /\ IsSuffix(".tar", args[1])

\* C6 as stated: the derived output path is the input name with the
\* compress-tar suffix appended, and removal of the input is scheduled,
\* happening if and only if the keep flag is not set.
C6_SuffixAppended ==
  C6_Case =>
    /\ opath = args[1] \o ".tpxz"
    /\ iremove
    /\ RemovalIffNotKept

\* C6 amended: the derived output path is the input name with its ".tar"
\* replaced by the compress-tar suffix ".tpxz", and removal of the input is
\* scheduled, happening (at the end of a run that returns) if and only if
\* the keep flag is not set.
C6_SuffixReplaced ==
  C6_Case =>
    /\ opath = SubSeq(args[1], 1, Len(args[1]) - 4) \o ".tpxz"
    /\ derived = opath
    /\ iremove
    /\ RemovalIffNotKept
C6_Witness ==
  /\ C6_Case /\ args = << "f.tar" >> /\ opath = "f.tpxz"
  /\ Returned0 /\ ~keep_input /\ InTrace("unlink")
  /\ ~fs["f.tar"].exists

\* C7: when the output path is set and the input is a real file, the output
\* file that exists once the output stream is open has exactly the
\* permission bits of the input file.
C7_OutputHasInputPermissions ==
  (pc \in {"dispatch", "cleanup"} /\ opath # NULL
     /\ gInFile \notin {STDIN, NULL}) =>
    Perm(fs[opath].mode) = Perm(fs[ipath].mode)

\* C8: every usage error of the option parser or the binder ends the process
\* with status 2 before any file was opened, created or removed and before
\* any engine was called; and the process gets past the binder only when
\* the positional arguments are not too many, -o and a second positional
\* argument are not both given, and the suffix is known.
C8_UsageBeforeFiles ==
  /\ (run = "exited" /\ pc \in {"getopt", "bind"}) =>
       /\ status = 2
       /\ DOMAIN fs = {}
       /\ outOpened = NULL
       /\ gInFile \in {NULL, STDIN} /\ gOutFile \in {NULL, STDOUT}
       /\ ~InTrace("open_in") /\ ~InTrace("open_out")
       /\ ~InTrace("engine") /\ ~InTrace("unlink")
       /\ calls = << >>
  /\ (Bound /\ op # OP_EXTRACT) =>
       /\ Len(args) <= 2
       /\ ~(op = OP_LIST /\ Len(args) = 2)
       /\ (Len(args) = 2 => oGiven = NULL)
       /\ derived # NULL
  /\ gPipelineQSize >= 0 /\ gPipelineProcessMax >= 0 /\ gBlockFraction >= 0
C8_Witness ==
  /\ run = "exited" /\ status = 2 /\ pc = "bind"
  /\ msg = "Unknown suffix" /\ InTrace("derive") /\ DOMAIN fs = {}

\* The order of the steps as the claim C9 gives it, and as main() has it.
RankClaimed(e) ==
  CASE e = "open_in" -> 1 [] e = "derive" -> 2 [] e = "open_out" -> 3
    [] e = "engine" -> 4 [] e = "unlink" -> 5
RankCoded(e) ==
  CASE e = "derive" -> 1 [] e = "open_in" -> 2 [] e = "open_out" -> 3
    [] e = "engine" -> 4 [] e = "unlink" -> 5
\* After a failure to open the input or the output stream no engine is
\* called and the input is not removed; at most one engine is called, and
\* exactly one in a run that returns.
FailureStops ==
  /\ (run = "exited" /\ pc \in {"open_in", "open_out"}) =>
       /\ status = 1
       /\ calls = << >> /\ ~InTrace("engine") /\ ~InTrace("unlink")
  /\ Len(calls) <= 1
  /\ Returned0 => Len(calls) = 1

\* C9 as stated: open input, then resolve paths, then open output, then one
\* engine, then the removal; no later step before an earlier one.
C9_OpenBeforeResolve ==
  /\ \A i, j \in 1..Len(trace) :
       i < j => RankClaimed(trace[i]) < RankClaimed(trace[j])
  /\ FailureStops

\* C9 amended: resolve paths (derivation and its unknown-suffix check), then
\* open input, then open output, then one engine, then the removal; no
\* later step before an earlier one, and after a failure to open a stream
\* no engine is called and the input is not removed.
C9_ResolveBeforeOpen ==
  /\ \A i, j \in 1..Len(trace) :
       i < j => RankCoded(trace[i]) < RankCoded(trace[j])
  /\ FailureStops
C9_Witness ==
  /\ trace = << "derive", "open_in", "open_out", "engine", "unlink" >>
  /\ Returned0

\* C10: in every call of strsuf made while deriving a path, the offset
\* strlen(big) - strlen(small) at which the comparison starts is not
\* negative.
C10_OffsetNonNegative == dOff >= 0

====
